---- MODULE Spec2Model ----
(***************************************************************************)
(* Model of the G2 speech-capture app: the page controller (the recording  *)
(* toggle and the worker.onmessage handler), the two capture backends seen *)
(* through start()/stop(), and the Whisper worker (self.onmessage,         *)
(* loadModel, transcribe).                                                 *)
(*                                                                         *)
(* The page and the worker are two event loops joined by two ordered       *)
(* message channels.  Every handler runs to completion; an async handler   *)
(* is cut at each await into steps.  A settled promise resumes its awaiter *)
(* in a microtask, before the page's next task: the page's task actions    *)
(* are guarded by MicrotasksEmpty.                                         *)
(*                                                                         *)
(* In the composed system a sample buffer is represented by its length.    *)
(* The backends taken alone (GlassesSpec, LiveSpec, ResampleSpec) carry    *)
(* the samples: a buffer is a sequence of samples, a sample the integer k  *)
(* standing for k/32768; a resampled sample is an exact fraction.          *)
(* Requests are numbered in posting order; the numbers, the tasks' pc,     *)
(* emitted, resolved and log are history kept for stating properties and   *)
(* are never read by the code.                                             *)
(***************************************************************************)
EXTENDS Naturals, Integers, Sequences, FiniteSets, TLC

\* ------------------------------------------------------------- bounds
\* Requests (load and transcribe) posted to the worker in one behaviour.
MaxReq == 4
\* Requests a client posts to the worker taken alone.
MaxClientReq == 3
\* Audio frames the bridge delivers within one capture session.
MaxFrames == 2
\* progress_callback invocations in one behaviour.
MaxProgress == 1
\* Calls and bridge events at a capture backend driven alone.
MaxCalls == 5
\* Samples in the buffer handed to the resampler.
MaxLen == 4

\* ---------------------------------------------------------- constants
\* stopRecording: fewer samples than this is "too short".
MinSamples == 1600

\* Lengths (in samples) of the PCM frames the bridge delivers.
FrameLens == {799, 800}
\* Lengths of the buffer the MediaRecorder backend decodes to.
BrowserLens == {0, 1599, 1600}
\* resample(): the rate Whisper takes.
TargetRate == 16000
\* BrowserAudioCapture.nativeSampleRate before the first start().
DefaultRate == 48000
\* Rates an AudioContext reports.
NativeRates == {8000, 16000, 24000, 32000, 44100, 48000}
\* Sample values of the buffers handed to the resampler.
Samples == {-2, 0, 2}
\* Blocks of samples the platform delivers to onaudioprocess.
LiveBlocks == {<<2>>, <<0, -2>>}
\* Rates the AudioContext reports to a backend driven through its calls.
LiveRates == {16000, 48000}
\* PCM frames (bytes) the bridge delivers to a backend driven alone: the
\* samples 1; -1; -32768, 32767.
PcmFrames == {<<1, 0>>, <<255, 255>>, <<0, 128, 255, 127>>}

VARIABLES
  mainPc,        \* main(): "start" | "micInit" | "done"
  audioCapture,  \* "null" | "glasses" | "browser"
  modelReady,    \* let modelReady
  recording,     \* let recording
  statusText,    \* statusEl.textContent
  btnText,       \* recordBtn.textContent
  btnDisabled,   \* recordBtn.disabled
  modelStatus,   \* modelStatusEl.textContent: "init" | "progress" | "ready"
  stopPromise,   \* the promise stopRecording awaits: [st, len]
  chunks,        \* the backend's chunks: frame lengths, or frames of samples
  capRecording,  \* GlassesAudioCapture.recording
  subs,          \* live onEvenHubEvent subscriptions of the backend
  unsubscribe,   \* GlassesAudioCapture.unsubscribe is non-null
  micOn,         \* last bridge.audioControl(x)
  recorderState, \* BrowserAudioCapture.recorder: "null" | "recording" | "inactive"
  returned,      \* the buffer the backend's last stop()/getAudio() resolved with
  log,           \* calls and bridge events at a backend driven alone, in order
  stream,        \* BrowserAudioCapture.stream: "null" | "live" | "ended"
  audioCtx,      \* BrowserAudioCapture.audioCtx: "null" | "running" | "closed"
  nodes,         \* sourceNode and processorNode: "null" | "connected" | "disconnected"
  nativeSampleRate, \* BrowserAudioCapture.nativeSampleRate
  closeErrors,   \* close() calls rejected because the context was closed
  toWorker,      \* requests in flight to the worker
  toMain,        \* responses in flight to the page
  transcriber,   \* worker's transcriber: 0 (null) or the load that set it
  tasks,         \* per request: [type, pc]
  progressLeft,  \* progress callbacks still to come
  emitted,       \* every ready/result/error the worker posted, in order
  resolved       \* requests whose ready/result/error the page has handled

ctlVars == <<mainPc, audioCapture, modelReady, recording, statusText, btnText,
             btnDisabled, modelStatus, stopPromise, resolved>>
\* What only a backend driven alone changes.
apiVars == <<returned, log, stream, audioCtx, nodes, nativeSampleRate,
             closeErrors>>
liveVars == <<stream, audioCtx, nodes, nativeSampleRate, closeErrors>>
capVars == <<chunks, capRecording, subs, unsubscribe, micOn, recorderState,
             apiVars>>
reqVars == <<toWorker, tasks>>
wrkVars == <<toMain, transcriber, progressLeft, emitted>>
vars == <<ctlVars, capVars, reqVars, wrkVars>>

NoPromise == [st |-> "none", len |-> 0]
Resolved(n) == [st |-> "resolved", len |-> n]
Rejected == [st |-> "rejected", len |-> 0]
Pending == [st |-> "pending", len |-> 0]

\* The page's microtask queue is empty: no settled promise has an awaiter
\* still to resume.
MicrotasksEmpty == stopPromise.st \notin {"resolved", "rejected"}

RECURSIVE SumLens(_)
SumLens(s) == IF s = <<>> THEN 0 ELSE Head(s) + SumLens(Tail(s))

\* mergeChunks(chunks).length
MergeLen(cs) == SumLens(cs)

Terminal == {"ready", "result", "error"}

Req(t, i) == [type |-> t, id |-> i]
Task(t) == [type |-> t, pc |-> "sent"]

\* worker.postMessage(request) on the page
PostRequest(t) ==
  /\ toWorker' = Append(toWorker, Req(t, Len(tasks) + 1))
  /\ tasks' = Append(tasks, Task(t))

\* ------------------------------------------------------------- Init
\* The page's markup is not part of the sources: the status text starts as
\* "init", the button as labelled Record, enabled or not.
CtlInit ==
  /\ mainPc = "start"
  /\ audioCapture = "null"
  /\ modelReady = FALSE
  /\ recording = FALSE
  /\ statusText = "init"
  /\ btnText = "Record"
  /\ btnDisabled \in BOOLEAN
  /\ modelStatus = "init"
  /\ stopPromise = NoPromise
  /\ resolved = {}

CapInit ==
  /\ chunks = <<>>
  /\ capRecording = FALSE
  /\ subs = 0
  /\ unsubscribe = FALSE
  /\ micOn = FALSE
  /\ recorderState = "null"
  /\ returned = <<>>
  /\ log = <<>>
  /\ stream = "null"
  /\ audioCtx = "null"
  /\ nodes = "null"
  /\ nativeSampleRate = DefaultRate
  /\ closeErrors = 0

WrkInit ==
  /\ toMain = <<>>
  /\ transcriber = 0
  /\ progressLeft = MaxProgress
  /\ emitted = <<>>

\* The page: the module body posts {type: "load"} before main() runs.
Init ==
  /\ CtlInit /\ CapInit /\ WrkInit
  /\ toWorker = <<Req("load", 1)>>
  /\ tasks = <<Task("load")>>


\* ------------------------------------------------- capture backends
\* Mutant: start() keeps the chunks of the previous session.
GlassesStart_NoReset ==
  /\ capRecording' = TRUE
  /\ subs' = subs + 1
  /\ unsubscribe' = TRUE
  /\ micOn' = TRUE
  /\ UNCHANGED <<chunks, recorderState>>

\* GlassesAudioCapture.start()
GlassesStart ==
  /\ chunks' = <<>>
  /\ capRecording' = TRUE
  /\ subs' = subs + 1
  /\ unsubscribe' = TRUE
  /\ micOn' = TRUE
  /\ UNCHANGED recorderState

\* Mutant: stop() calls unsubscribe without testing it for null.
GlassesStopFields_Unguarded ==
  /\ capRecording' = FALSE
  /\ micOn' = FALSE
  /\ subs' = subs - 1
  /\ unsubscribe' = FALSE
  /\ UNCHANGED <<chunks, recorderState>>

\* GlassesAudioCapture.stop(), its statements before the return.
GlassesStopFields ==
  /\ capRecording' = FALSE
  /\ micOn' = FALSE
  /\ subs' = IF unsubscribe THEN subs - 1 ELSE subs
  /\ unsubscribe' = FALSE
  /\ UNCHANGED <<chunks, recorderState>>

\* GlassesAudioCapture.stop(): an async function without an await, so the
\* promise it returns is already resolved with the merged buffer.
GlassesStop ==
  /\ GlassesStopFields
  /\ stopPromise' = Resolved(MergeLen(chunks))

\* BrowserAudioCapture.start(): a new MediaRecorder, started.
BrowserStart ==
  /\ recorderState' = "recording"
  /\ UNCHANGED <<chunks, capRecording, subs, unsubscribe, micOn>>

\* BrowserAudioCapture.stop(): rejects at once when there is no active
\* recorder; otherwise installs onstop and stops the recorder, and the
\* promise settles when onstop has decoded the recording.
BrowserStop ==
  /\ IF recorderState \in {"null", "inactive"}
       THEN /\ stopPromise' = Rejected
            /\ UNCHANGED recorderState
       ELSE /\ stopPromise' = Pending
            /\ recorderState' = "inactive"
  /\ UNCHANGED <<chunks, capRecording, subs, unsubscribe, micOn>>

\* audioCapture.start()
CaptureStart ==
  /\ IF audioCapture = "glasses" THEN GlassesStart ELSE BrowserStart
  /\ UNCHANGED apiVars

\* audioCapture.stop()
CaptureStop ==
  /\ IF audioCapture = "glasses" THEN GlassesStop ELSE BrowserStop
  /\ UNCHANGED apiVars

\* ------------------------------------------------ recording toggle
\* Mutant: startRecording() forgets to set the recording flag.
StartRecording_NoFlag ==
  IF audioCapture = "null"
    THEN UNCHANGED vars
    ELSE /\ CaptureStart
         /\ statusText' = "Recording..."
         /\ btnText' = "Stop"
         /\ UNCHANGED <<mainPc, audioCapture, modelReady, recording,
                        btnDisabled, modelStatus, stopPromise, resolved>>
         /\ UNCHANGED <<reqVars, wrkVars>>

\* startRecording()
StartRecording ==
  IF audioCapture = "null"
    THEN UNCHANGED vars
    ELSE /\ recording' = TRUE
         /\ CaptureStart
         /\ statusText' = "Recording..."
         /\ btnText' = "Stop"
         /\ UNCHANGED <<mainPc, audioCapture, modelReady, btnDisabled,
                        modelStatus, stopPromise, resolved>>
         /\ UNCHANGED <<reqVars, wrkVars>>

\* stopRecording(), up to its await of audioCapture.stop()
StopRecording ==
  IF audioCapture = "null" \/ ~recording
    THEN UNCHANGED vars
    ELSE /\ recording' = FALSE
         /\ btnText' = "..."
         /\ btnDisabled' = TRUE
         /\ CaptureStop
         /\ UNCHANGED <<mainPc, audioCapture, modelReady, statusText,
                        modelStatus, resolved>>
         /\ UNCHANGED <<reqVars, wrkVars>>

\* Mutant: toggleRecording() without the modelReady gate.
ToggleRecording_NoGate == IF recording THEN StopRecording ELSE StartRecording

\* toggleRecording()
ToggleRecording ==
  IF ~modelReady
    THEN UNCHANGED vars
    ELSE IF recording THEN StopRecording ELSE StartRecording

\* Mutant: the length test off by one.
TooShort_OffByOne(n) == n <= MinSamples

\* stopRecording()'s test of the captured length
TooShort(n) == n < MinSamples

\* Mutant: the catch block leaves the button disabled.
StopRecordingResume_CatchKeepsDisabled ==
  /\ stopPromise.st \in {"resolved", "rejected"}
  /\ stopPromise' = NoPromise
  /\ btnDisabled' = (stopPromise.st = "rejected")
  /\ IF stopPromise.st = "rejected"
       THEN /\ statusText' = "Audio error - try again"
            /\ btnText' = "Record"
            /\ UNCHANGED reqVars
       ELSE IF TooShort(stopPromise.len)
         THEN /\ statusText' = "Too short - try again"
              /\ btnText' = "Record"
              /\ UNCHANGED reqVars
         ELSE /\ statusText' = "Transcribing..."
              /\ PostRequest("transcribe")
              /\ UNCHANGED btnText
  /\ UNCHANGED <<mainPc, audioCapture, modelReady, recording, modelStatus,
                 resolved>>
  /\ UNCHANGED <<capVars, wrkVars>>

\* stopRecording() resumed after the await: the try block's remainder, or
\* the catch block when the promise was rejected.
StopRecordingResume ==
  /\ stopPromise.st \in {"resolved", "rejected"}
  /\ stopPromise' = NoPromise
  /\ btnDisabled' = FALSE
  /\ IF stopPromise.st = "rejected"
       THEN /\ statusText' = "Audio error - try again"
            /\ btnText' = "Record"
            /\ UNCHANGED reqVars
       ELSE IF TooShort(stopPromise.len)
         THEN /\ statusText' = "Too short - try again"
              /\ btnText' = "Record"
              /\ UNCHANGED reqVars
         ELSE /\ statusText' = "Transcribing..."
              /\ PostRequest("transcribe")
              /\ UNCHANGED btnText
  /\ UNCHANGED <<mainPc, audioCapture, modelReady, recording, modelStatus,
                 resolved>>
  /\ UNCHANGED <<capVars, wrkVars>>

\* The user acts only while the request budget lasts.
UserActive == Len(tasks) < MaxReq

\* recordBtn's click listener; a disabled button dispatches no click.
Click ==
  /\ MicrotasksEmpty
  /\ UserActive
  /\ ~btnDisabled
  /\ ToggleRecording

\* main()'s bridge.onEvenHubEvent handler on a tap (a non-audio event whose
\* type is CLICK_EVENT or undefined); registered in glasses mode only.
Tap ==
  /\ MicrotasksEmpty
  /\ UserActive
  /\ audioCapture = "glasses"
  /\ ToggleRecording

\* The backend's onEvenHubEvent callback on an audio event: each live
\* subscription pushes the converted frame while the backend records.
RECURSIVE Pushed(_, _, _)
Pushed(cs, f, n) == IF n = 0 THEN cs ELSE Pushed(Append(cs, f), f, n - 1)

AudioEvent(f) ==
  /\ MicrotasksEmpty
  /\ audioCapture = "glasses"
  /\ subs > 0
  /\ Len(chunks) < MaxFrames
  /\ chunks' = IF capRecording THEN Pushed(chunks, f, subs) ELSE chunks
  /\ UNCHANGED <<capRecording, subs, unsubscribe, micOn, recorderState,
                 apiVars>>
  /\ UNCHANGED <<ctlVars, reqVars, wrkVars>>

\* The MediaRecorder goes inactive by itself (its track ended).
RecorderEnds ==
  /\ MicrotasksEmpty
  /\ recorderState = "recording"
  /\ stopPromise.st = "none"
  /\ recorderState' = "inactive"
  /\ UNCHANGED <<chunks, capRecording, subs, unsubscribe, micOn, apiVars>>
  /\ UNCHANGED <<ctlVars, reqVars, wrkVars>>

\* recorder.onstop: the recording decodes and resamples to a buffer
\* (resolve) or decoding throws (reject).
RecorderOnStop ==
  /\ stopPromise.st = "pending"
  /\ \/ \E n \in BrowserLens : stopPromise' = Resolved(n)
     \/ stopPromise' = Rejected
  /\ UNCHANGED <<mainPc, audioCapture, modelReady, recording, statusText,
                 btnText, btnDisabled, modelStatus, resolved>>
  /\ UNCHANGED <<capVars, reqVars, wrkVars>>

\* ------------------------------------------------------------ main()
\* main(), glasses connected: the glasses backend and the tap handler.
MainGlasses ==
  /\ MicrotasksEmpty
  /\ mainPc = "start"
  /\ mainPc' = "done"
  /\ statusText' = "Connected to glasses"
  /\ audioCapture' = "glasses"
  /\ UNCHANGED <<modelReady, recording, btnText, btnDisabled, modelStatus,
                 stopPromise, resolved>>
  /\ UNCHANGED <<capVars, reqVars, wrkVars>>

\* main(), no glasses: browser-only mode, up to the await of init().
MainBrowser ==
  /\ MicrotasksEmpty
  /\ mainPc = "start"
  /\ mainPc' = "micInit"
  /\ statusText' = "Browser-only mode"
  /\ UNCHANGED <<audioCapture, modelReady, recording, btnText, btnDisabled,
                 modelStatus, stopPromise, resolved>>
  /\ UNCHANGED <<capVars, reqVars, wrkVars>>

\* main() resumed: init() resolved, or it threw (mic access denied).
MainMic(ok) ==
  /\ MicrotasksEmpty
  /\ mainPc = "micInit"
  /\ mainPc' = "done"
  /\ IF ok
       THEN audioCapture' = "browser" /\ UNCHANGED statusText
       ELSE statusText' = "Mic access denied" /\ UNCHANGED audioCapture
  /\ UNCHANGED <<modelReady, recording, btnText, btnDisabled, modelStatus,
                 stopPromise, resolved>>
  /\ UNCHANGED <<capVars, reqVars, wrkVars>>

\* ---------------------------------------------------- worker.onmessage
\* Mutant: a progress response already marks the model ready.
OnProgress_SetsReady ==
  /\ modelReady' = TRUE
  /\ modelStatus' = "progress"
  /\ btnDisabled' = FALSE
  /\ UNCHANGED <<statusText, btnText>>

\* The "progress" branch
OnProgress ==
  /\ modelStatus' = "progress"
  /\ UNCHANGED <<modelReady, btnDisabled, statusText, btnText>>

\* The "ready" branch
OnReady ==
  /\ modelReady' = TRUE
  /\ modelStatus' = "ready"
  /\ btnDisabled' = FALSE
  /\ UNCHANGED <<statusText, btnText>>

\* Mutant: the "result" branch leaves the button's label alone.
OnResult_NoRelabel ==
  /\ statusText' = "Tap to record"
  /\ UNCHANGED <<modelReady, modelStatus, btnDisabled, btnText>>

\* The "result" branch
OnResult ==
  /\ statusText' = "Tap to record"
  /\ btnText' = "Record"
  /\ UNCHANGED <<modelReady, modelStatus, btnDisabled>>

\* The "error" branch
OnError ==
  /\ statusText' = "Error - tap to retry"
  /\ btnText' = "Record"
  /\ UNCHANGED <<modelReady, modelStatus, btnDisabled>>

\* The page's handler of one worker response.
MainRecv ==
  /\ MicrotasksEmpty
  /\ toMain # <<>>
  /\ LET msg == Head(toMain) IN
       /\ toMain' = Tail(toMain)
       /\ resolved' = IF msg.type \in Terminal
                        THEN resolved \cup {msg.id} ELSE resolved
       /\ CASE msg.type = "progress" -> OnProgress
            [] msg.type = "ready" -> OnReady
            [] msg.type = "result" -> OnResult
            [] msg.type = "error" -> OnError
  /\ UNCHANGED <<mainPc, audioCapture, recording, stopPromise>>
  /\ UNCHANGED <<capVars, reqVars, transcriber, progressLeft, emitted>>

\* ------------------------------------------------------------ worker
Resp(t, i) == [type |-> t, id |-> i]

\* self.postMessage(response) in the worker
PostResponse(t, i) ==
  /\ toMain' = Append(toMain, Resp(t, i))
  /\ emitted' = IF t \in Terminal THEN Append(emitted, Resp(t, i)) ELSE emitted

SetPc(i, pc) == tasks' = [tasks EXCEPT ![i].pc = pc]

\* Mutant: transcribe() posts "Model not loaded" and, lacking the return,
\* goes on to call the null transcriber.
TranscribeBegin_NoReturn(i) ==
  IF transcriber = 0
    THEN /\ PostResponse("error", i)
         /\ SetPc(i, "invoke")
    ELSE /\ SetPc(i, "invoke")
         /\ UNCHANGED <<toMain, emitted>>

\* transcribe(audio) up to its first await: without a model it posts
\* "Model not loaded" and returns; otherwise it calls the model.
TranscribeBegin(i) ==
  IF transcriber = 0
    THEN /\ PostResponse("error", i)
         /\ SetPc(i, "notLoaded")
    ELSE /\ SetPc(i, "invoke")
         /\ UNCHANGED <<toMain, emitted>>

\* self.onmessage takes the next request: a load runs loadModel() up to
\* the await of detectDevice(), a transcribe runs transcribe().
WorkerRecv ==
  /\ toWorker # <<>>
  /\ LET msg == Head(toWorker) IN
       /\ toWorker' = Tail(toWorker)
       /\ IF msg.type = "load"
            THEN /\ SetPc(msg.id, "detect")
                 /\ UNCHANGED <<toMain, emitted>>
            ELSE TranscribeBegin(msg.id)
  /\ UNCHANGED <<transcriber, progressLeft>>
  /\ UNCHANGED <<ctlVars, capVars>>

\* loadModel() resumed with the device: posts the "initiate" progress and
\* calls pipeline(), awaiting the model.
DetectDone(i) ==
  /\ tasks[i].pc = "detect"
  /\ PostResponse("progress", i)
  /\ SetPc(i, "acquire")
  /\ UNCHANGED <<toWorker, transcriber, progressLeft>>
  /\ UNCHANGED <<ctlVars, capVars>>

\* progress_callback during the acquisition
AcquireProgress(i) ==
  /\ tasks[i].pc = "acquire"
  /\ progressLeft > 0
  /\ progressLeft' = progressLeft - 1
  /\ PostResponse("progress", i)
  /\ UNCHANGED <<toWorker, tasks, transcriber>>
  /\ UNCHANGED <<ctlVars, capVars>>

\* loadModel() resumed with the model: stores it and posts ready.
AcquireOk(i) ==
  /\ tasks[i].pc = "acquire"
  /\ transcriber' = i
  /\ PostResponse("ready", i)
  /\ SetPc(i, "done")
  /\ UNCHANGED <<toWorker, progressLeft>>
  /\ UNCHANGED <<ctlVars, capVars>>

\* pipeline() rejected: the load branch's catch posts "Model load failed".
AcquireFail(i) ==
  /\ tasks[i].pc = "acquire"
  /\ PostResponse("error", i)
  /\ SetPc(i, "failed")
  /\ UNCHANGED <<toWorker, transcriber, progressLeft>>
  /\ UNCHANGED <<ctlVars, capVars>>

\* transcribe() resumed with the model's output: posts the result.
InvokeReturn(i) ==
  /\ tasks[i].pc = "invoke"
  /\ PostResponse("result", i)
  /\ SetPc(i, "done")
  /\ UNCHANGED <<toWorker, transcriber, progressLeft>>
  /\ UNCHANGED <<ctlVars, capVars>>

\* Mutant: the transcribe branch's catch swallows the exception.
InvokeThrow_Silent(i) ==
  /\ tasks[i].pc = "invoke"
  /\ SetPc(i, "failed")
  /\ UNCHANGED <<toWorker, transcriber, progressLeft, toMain, emitted>>
  /\ UNCHANGED <<ctlVars, capVars>>

\* Mutant: the transcribe branch's catch drops the model.
InvokeThrow_Unloads(i) ==
  /\ tasks[i].pc = "invoke"
  /\ PostResponse("error", i)
  /\ SetPc(i, "failed")
  /\ transcriber' = 0
  /\ UNCHANGED <<toWorker, progressLeft>>
  /\ UNCHANGED <<ctlVars, capVars>>

\* The model threw: the transcribe branch's catch posts
\* "Transcription failed".
InvokeThrow(i) ==
  /\ tasks[i].pc = "invoke"
  /\ PostResponse("error", i)
  /\ SetPc(i, "failed")
  /\ UNCHANGED <<toWorker, transcriber, progressLeft>>
  /\ UNCHANGED <<ctlVars, capVars>>

Ids == 1..Len(tasks)

\* --------------------------------------------------- specifications
\* The page and its worker.
Next ==
  \/ MainGlasses
  \/ MainBrowser
  \/ \E ok \in BOOLEAN : MainMic(ok)
  \/ Click
  \/ Tap
  \/ \E f \in FrameLens : AudioEvent(f)
  \/ RecorderEnds
  \/ RecorderOnStop
  \/ StopRecordingResume
  \/ MainRecv
  \/ WorkerRecv
  \/ \E i \in Ids : DetectDone(i)
  \/ \E i \in Ids : AcquireProgress(i)
  \/ \E i \in Ids : AcquireOk(i)
  \/ \E i \in Ids : AcquireFail(i)
  \/ \E i \in Ids : InvokeReturn(i)
  \/ \E i \in Ids : InvokeThrow(i)

Spec == Init /\ [][Next]_vars

\* The page and its worker, with the scheduling the two event loops give:
\* a posted message is delivered, a settled promise resumes its awaiter,
\* and the model's invocation returns or throws.  The page's message task
\* waits while a microtask is due, so it is not continuously enabled: the
\* event loop still runs every queued task, which is strong fairness.
FairSpec ==
  /\ Spec
  /\ WF_vars(WorkerRecv)
  /\ SF_vars(MainRecv)
  /\ WF_vars(StopRecordingResume)
  /\ WF_vars(\E i \in Ids : InvokeReturn(i) \/ InvokeThrow(i))

\* The worker alone, driven by a client that posts any requests.
ClientPost(t) ==
  /\ Len(tasks) < MaxClientReq
  /\ PostRequest(t)
  /\ UNCHANGED <<ctlVars, capVars, wrkVars>>

WorkerInit ==
  /\ CtlInit /\ CapInit /\ WrkInit
  /\ btnDisabled
  /\ toWorker = <<>>
  /\ tasks = <<>>

WorkerNext ==
  \/ \E t \in {"load", "transcribe"} : ClientPost(t)
  \/ WorkerRecv
  \/ \E i \in Ids : DetectDone(i)
  \/ \E i \in Ids : AcquireProgress(i)
  \/ \E i \in Ids : AcquireOk(i)
  \/ \E i \in Ids : AcquireFail(i)
  \/ \E i \in Ids : InvokeReturn(i)
  \/ \E i \in Ids : InvokeThrow(i)

WorkerSpec == WorkerInit /\ [][WorkerNext]_vars

\* ---------------------------------- GlassesAudioCapture driven alone
\* One 16-bit little-endian two's-complement sample of an Int16Array.
Int16LE(lo, hi) ==
  LET u == lo + 256 * hi IN IF u >= 32768 THEN u - 65536 ELSE u

\* pcmS16LEtoFloat32(uint8): uint8.length / 2 samples, int16[i] / 32768
\* each, which a Float32 holds exactly and the model keeps as int16[i].
PcmS16LEtoFloat32(uint8) ==
  [i \in 1..(Len(uint8) \div 2) |-> Int16LE(uint8[2 * i - 1], uint8[2 * i])]

\* mergeChunks(chunks): the chunks laid end to end at growing offsets.
RECURSIVE MergeChunks(_)
MergeChunks(cs) ==
  IF cs = <<>> THEN <<>> ELSE Head(cs) \o MergeChunks(Tail(cs))

\* EvenHubEvent: an audio event carrying PCM bytes, or any other event.
AudioEv(b) == [kind |-> "audio", audioPcm |-> b]
OtherEv == [kind |-> "other", audioPcm |-> <<>>]
Call(k) == [kind |-> k, audioPcm |-> <<>>]

\* One more call or event at the backend's interface.
Logged(e) ==
  /\ Len(log) < MaxCalls
  /\ log' = Append(log, e)

\* The callback start() subscribes, run by each live subscription.
HubCallback(ev) ==
  chunks' = IF capRecording /\ ev.kind = "audio"
              THEN Pushed(chunks, PcmS16LEtoFloat32(ev.audioPcm), subs)
              ELSE chunks

\* A client calls start(); it opens a session only on a backend that is
\* not recording, as the controller does.
CallStart ==
  /\ ~capRecording
  /\ Logged(Call("start"))
  /\ GlassesStart
  /\ UNCHANGED <<returned, liveVars>>
  /\ UNCHANGED <<ctlVars, reqVars, wrkVars>>

\* A client calls stop() and takes the buffer it resolves with.
CallStop ==
  /\ Logged(Call("stop"))
  /\ GlassesStopFields
  /\ returned' = MergeChunks(chunks)
  /\ UNCHANGED liveVars
  /\ UNCHANGED <<ctlVars, reqVars, wrkVars>>

\* A client calls getAudio().
CallGetAudio ==
  /\ Logged(Call("getAudio"))
  /\ returned' = MergeChunks(chunks)
  /\ UNCHANGED <<chunks, capRecording, subs, unsubscribe, micOn,
                 recorderState, liveVars>>
  /\ UNCHANGED <<ctlVars, reqVars, wrkVars>>

\* The bridge dispatches an event to its subscribers; frames in flight
\* arrive whether or not the microphone is still on.
BridgeEvent(ev) ==
  /\ Logged(ev)
  /\ HubCallback(ev)
  /\ UNCHANGED <<capRecording, subs, unsubscribe, micOn, recorderState,
                 returned, liveVars>>
  /\ UNCHANGED <<ctlVars, reqVars, wrkVars>>

GlassesNext ==
  \/ CallStart
  \/ CallStop
  \/ CallGetAudio
  \/ \E b \in PcmFrames : BridgeEvent(AudioEv(b))
  \/ BridgeEvent(OtherEv)

GlassesSpec == WorkerInit /\ [][GlassesNext]_vars

\* ---------------------------------- BrowserAudioCapture driven alone
\* A resampled sample: the exact value num/den.
Frac(n, d) == [num |-> n, den |-> d]

\* Mutant: the upper index is not clamped.
Min_NoClamp(a, b) == a

Min(a, b) == IF a <= b THEN a ELSE b
Max(a, b) == IF a <= b THEN b ELSE a

\* What arithmetic on a read outside the Float32Array (undefined) gives.
NaN == Frac(0, 0)

\* Index k (from 0) is inside a buffer of len samples.
InRange(k, len) == 0 <= k /\ k < len

\* Mutant: the output length rounded down.
RoundDiv_Floor(n, d) == n \div d

\* Math.round(n / d) for n >= 0, d > 0: the nearest integer, halves up.
RoundDiv(n, d) == (2 * n + d) \div (2 * d)

\* resample(raw) with this.nativeSampleRate = native, in exact arithmetic
\* (ratio = TargetRate / native is kept as the pair, so srcIdx = i / ratio
\* is i * native / TargetRate; the rounding of the doubles and of the
\* Float32 result is left out).  Output index i is the code's i + 1; a
\* sample computed from a read outside raw is NaN.
Resample(raw, native) ==
  IF native = TargetRate
    THEN [i \in 1..Len(raw) |-> Frac(raw[i], 1)]
    ELSE LET outLen == RoundDiv(Len(raw) * TargetRate, native) IN
         [i \in 1..outLen |->
            LET pos == (i - 1) * native
                lo == pos \div TargetRate
                hi == Min(lo + 1, Len(raw) - 1)
                r == pos % TargetRate
            IN IF InRange(lo, Len(raw)) /\ InRange(hi, Len(raw))
                 THEN Frac(raw[lo + 1] * (TargetRate - r) + raw[hi + 1] * r,
                           TargetRate)
                 ELSE NaN]

\* The fields of the other backend, which this one never touches.
GlassesFields == <<capRecording, subs, unsubscribe, micOn, recorderState>>

\* init(): getUserMedia resolves with a live stream, or rejects.
LiveInit(ok) ==
  /\ stream = "null"
  /\ Logged(Call("init"))
  /\ stream' = IF ok THEN "live" ELSE stream
  /\ UNCHANGED <<chunks, returned, audioCtx, nodes, nativeSampleRate,
                 closeErrors, GlassesFields>>
  /\ UNCHANGED <<ctlVars, reqVars, wrkVars>>

\* start(), called after init() on a backend that is not recording: a new
\* AudioContext at the device's rate and a connected processing graph.
LiveStart(rate) ==
  /\ stream = "live"
  /\ audioCtx # "running"
  /\ Logged(Call("start"))
  /\ chunks' = <<>>
  /\ audioCtx' = "running"
  /\ nativeSampleRate' = rate
  /\ nodes' = "connected"
  /\ UNCHANGED <<returned, stream, closeErrors, GlassesFields>>
  /\ UNCHANGED <<ctlVars, reqVars, wrkVars>>

\* processorNode.onaudioprocess: a copy of the block is pushed.
AudioProcess(block) ==
  /\ nodes = "connected"
  /\ audioCtx = "running"
  /\ Logged(AudioEv(block))
  /\ chunks' = Append(chunks, block)
  /\ UNCHANGED <<returned, liveVars, GlassesFields>>
  /\ UNCHANGED <<ctlVars, reqVars, wrkVars>>

\* getAudio()
LiveGetAudio ==
  /\ Logged(Call("getAudio"))
  /\ returned' = Resample(MergeChunks(chunks), nativeSampleRate)
  /\ UNCHANGED <<chunks, liveVars, GlassesFields>>
  /\ UNCHANGED <<ctlVars, reqVars, wrkVars>>

\* audioCtx?.close(): nothing on null; closes a running context; on a
\* closed context the promise close() returns is rejected
\* (InvalidStateError) and nobody handles it.
CloseContext ==
  closeErrors' = IF audioCtx = "closed" THEN closeErrors + 1 ELSE closeErrors

\* stop()
LiveStop ==
  /\ Logged(Call("stop"))
  /\ nodes' = "null"
  /\ returned' = Resample(MergeChunks(chunks), nativeSampleRate)
  /\ CloseContext
  /\ audioCtx' = "null"
  /\ UNCHANGED <<chunks, stream, nativeSampleRate, GlassesFields>>
  /\ UNCHANGED <<ctlVars, reqVars, wrkVars>>

\* dispose(): the nodes are disconnected, the context closed and the
\* tracks stopped; no field is cleared.
LiveDispose ==
  /\ Logged(Call("dispose"))
  /\ nodes' = IF nodes = "null" THEN "null" ELSE "disconnected"
  /\ CloseContext
  /\ audioCtx' = IF audioCtx = "null" THEN "null" ELSE "closed"
  /\ stream' = IF stream = "null" THEN "null" ELSE "ended"
  /\ UNCHANGED <<chunks, returned, nativeSampleRate, GlassesFields>>
  /\ UNCHANGED <<ctlVars, reqVars, wrkVars>>

LiveNext ==
  \/ \E ok \in BOOLEAN : LiveInit(ok)
  \/ \E rate \in LiveRates : LiveStart(rate)
  \/ \E block \in LiveBlocks : AudioProcess(block)
  \/ LiveGetAudio
  \/ LiveStop
  \/ LiveDispose

LiveSpec == WorkerInit /\ [][LiveNext]_vars

\* The resampler taken alone: getAudio() on a recording backend whose
\* chunks hold any one buffer of up to MaxLen samples, at any rate.
RawBuffers == UNION {[1..n -> Samples] : n \in 0..MaxLen}

ResampleInit ==
  /\ CtlInit /\ WrkInit
  /\ btnDisabled
  /\ toWorker = <<>>
  /\ tasks = <<>>
  /\ capRecording = FALSE
  /\ subs = 0
  /\ unsubscribe = FALSE
  /\ micOn = FALSE
  /\ recorderState = "null"
  /\ returned = <<>>
  /\ log = <<>>
  /\ closeErrors = 0
  /\ stream = "live"
  /\ audioCtx = "running"
  /\ nodes = "connected"
  /\ nativeSampleRate \in NativeRates
  /\ chunks \in {<<raw>> : raw \in RawBuffers}

ResampleSpec == ResampleInit /\ [][LiveGetAudio]_vars



\* ------------------------------------------------------ properties
\* The capture backend's stop() has been called and has not settled.
Stopping == stopPromise.st = "pending"

\* Transcribe requests posted whose result or error the page has not
\* handled yet.
PendingTranscribes ==
  {i \in Ids : tasks[i].type = "transcribe" /\ i \notin resolved}

Transcribing == PendingTranscribes # {}

\* This step is the page handling the response at the head of toMain.
HandlesResponse == toMain # <<>> /\ toMain' = Tail(toMain)

\* This step resumes stopRecording() after its await.
ResumesStop ==
  stopPromise.st \in {"resolved", "rejected"} /\ stopPromise'.st = "none"

\* C1: while the session is Stopping or Transcribing no toggle starts a
\* capture: no step of toggleRecording() sets the recording flag, calls the
\* backend's start() or shows "Recording...".
C1_StartOnlyFromIdle ==
  [][(Stopping \/ Transcribing) /\ ToggleRecording
       => ~(recording' /\ ~recording) /\ statusText' # "Recording..."]_vars

\* C2: the worker invokes the model for one transcribe request at a time,
\* and the results and errors of transcribe requests are emitted in the
\* order of the requests.
C2_OneAtATimeInOrder ==
  /\ Cardinality({i \in Ids : tasks[i].pc = "invoke"}) <= 1
  /\ \A j, k \in 1..Len(emitted) :
       (/\ j < k
        /\ tasks[emitted[j].id].type = "transcribe"
        /\ tasks[emitted[k].id].type = "transcribe")
         => emitted[j].id < emitted[k].id

\* C3: when stopRecording() resumes with the captured buffer it posts one
\* transcribe request if the buffer has at least 1600 samples; with fewer
\* it posts nothing, reports "Too short", and leaves the session idle with
\* the button enabled and labelled Record.
C3_DispatchIffLongEnough ==
  [][(ResumesStop /\ stopPromise.st = "resolved") =>
       IF stopPromise.len >= 1600
         THEN /\ toWorker' = Append(toWorker, Req("transcribe", Len(tasks) + 1))
              /\ tasks' = Append(tasks, Task("transcribe"))
         ELSE /\ UNCHANGED <<toWorker, tasks>>
              /\ statusText' = "Too short - try again"
              /\ ~recording'
              /\ ~btnDisabled'
              /\ btnText' = "Record"]_vars

\* C3 witness: a glasses session of 1599 samples was rejected as too short.
C3_Witness ==
  /\ statusText = "Too short - try again"
  /\ audioCapture = "glasses"
  /\ MergeLen(chunks) = 1599
  /\ ~recording
  /\ stopPromise = NoPromise

\* C4: before the page has received ready, a toggle (a click or a tap)
\* changes nothing: not the recording flag, the texts, the backend's state
\* or the channels; and so in every such state no recording was started,
\* no backend call was made and only the load has been posted.
C4_ToggleNoOpBeforeReady ==
  /\ [][(~modelReady /\ ToggleRecording) => UNCHANGED vars]_vars
  /\ [](~modelReady =>
          /\ ~recording
          /\ chunks = <<>> /\ ~capRecording /\ subs = 0 /\ ~unsubscribe
          /\ ~micOn /\ recorderState = "null"
          /\ stopPromise = NoPromise
          /\ btnText \notin {"Stop", "..."}
          /\ statusText \notin {"Recording...", "Transcribing...",
                                 "Too short - try again",
                                 "Audio error - try again"}
          /\ Len(tasks) = 1)

\* C4 witness: the glasses are connected, taps reach toggleRecording(), and
\* ready has not arrived.
C4_Witness ==
  /\ ~modelReady
  /\ audioCapture = "glasses"
  /\ ENABLED Tap


\* The terminal responses the worker has posted for request i, in order.
Answers(i) == SelectSeq(emitted, LAMBDA r : r.id = i)

\* C5: a transcribe request the worker takes while it holds no model is
\* answered, in that step, with one error; the model is not invoked for
\* it, transcriber stays null, and the request never gets a result or a
\* second error.
C5_TranscribeWithoutModel ==
  /\ [][\A i \in Ids :
          (/\ tasks[i].type = "transcribe"
           /\ tasks[i].pc = "sent" /\ tasks'[i].pc # "sent"
           /\ transcriber = 0)
            => /\ tasks'[i].pc = "notLoaded"
               /\ emitted' = Append(emitted, Resp("error", i))
               /\ transcriber' = 0]_vars
  /\ [](\A i \in Ids :
          tasks[i].pc = "notLoaded" => Answers(i) = <<Resp("error", i)>>)

\* C5 witness: a transcribe was refused while a load was still acquiring
\* the model.
C5_Witness ==
  \E i, j \in Ids :
    /\ tasks[i].type = "transcribe" /\ tasks[i].pc = "notLoaded"
    /\ tasks[j].type = "load" /\ tasks[j].pc = "acquire"
    /\ Answers(i) = <<Resp("error", i)>>

\* C6: a handler that has finished has posted exactly one terminal
\* response: a load one ready, or one error and no ready; a transcribe one
\* result or one error, never both.  A handler still running has posted
\* none, whatever progress it has posted.
C6_OneTerminalResponse ==
  \A i \in Ids :
    LET ok == IF tasks[i].type = "load" THEN "ready" ELSE "result" IN
      Answers(i) =
        CASE tasks[i].pc = "done" -> <<Resp(ok, i)>>
          [] tasks[i].pc \in {"failed", "notLoaded"} -> <<Resp("error", i)>>
          [] OTHER -> <<>>

\* C6 witness: a load that failed after a progress response, a later load
\* that succeeded, and a transcribe whose model threw.
C6_Witness ==
  \E i, j, k \in Ids :
    /\ tasks[i].type = "load" /\ tasks[i].pc = "failed"
    /\ tasks[j].type = "load" /\ tasks[j].pc = "done"
    /\ tasks[k].type = "transcribe" /\ tasks[k].pc = "failed"
    /\ progressLeft = 0

\* C7: a load taken while an earlier load is still loading starts no
\* second acquisition: at most one load is in progress at any time.
C7_OverlappingLoadsGuarded ==
  Cardinality({i \in Ids : tasks[i].type = "load"
                            /\ tasks[i].pc \in {"detect", "acquire"}}) <= 1

\* C8: when the page handles the error response to a transcribe request,
\* the session is idle and ready to retry: not recording, the button
\* enabled and labelled Record.
C8_TranscribeErrorIdle ==
  [][(HandlesResponse /\ Head(toMain).type = "error"
        /\ tasks[Head(toMain).id].type = "transcribe")
       => /\ ~recording'
          /\ ~btnDisabled'
          /\ btnText' = "Record"
          /\ stopPromise'.st = "none"]_vars

\* A toggle can lead to a recording attempt: the model is ready and the
\* button is enabled.
RetryReady == modelReady /\ ~btnDisabled

\* C9: after every error path (a rejected capture stop(), an error
\* response to the load, an error response to a transcribe) the page is
\* ready to retry, with the button enabled.
C9_ErrorsLeaveRetryPossible ==
  [][((HandlesResponse /\ Head(toMain).type = "error")
        \/ (ResumesStop /\ stopPromise.st = "rejected"))
       => RetryReady']_vars

\* C10: every transcribe request the page has posted and not yet seen
\* answered is eventually answered: the page handles its result or error,
\* which labels the button Record and shows the idle or the retry status.
C10_TranscriptionResolves ==
  \A i \in 1..MaxReq :
    (i \in PendingTranscribes)
      ~> (/\ i \in resolved
          /\ btnText = "Record"
          /\ statusText \in {"Tap to record", "Error - tap to retry"})

\* C10 witness: the result of the second utterance has been handled.
C10_Witness ==
  /\ Len(tasks) = 3
  /\ tasks[3].type = "transcribe" /\ tasks[3].pc = "done"
  /\ 3 \in resolved
  /\ btnText = "Record"
  /\ statusText = "Tap to record"

\* C11: when the backend's stop() fails, stopRecording() resumes in its
\* catch block: that step posts no request, leaves the recording flag
\* false, the button enabled and labelled Record, and a capture backend
\* and a ready model in place; the next toggle then starts a recording.
C11_StopFailureRecovers ==
  /\ [][(ResumesStop /\ stopPromise.st = "rejected")
          => /\ UNCHANGED <<toWorker, tasks>>
             /\ ~recording'
             /\ ~btnDisabled'
             /\ btnText' = "Record"
             /\ statusText' = "Audio error - try again"
             /\ modelReady'
             /\ audioCapture' # "null"]_vars
  /\ [][(statusText = "Audio error - try again" /\ ToggleRecording)
          => /\ recording' /\ ~recording
             /\ recorderState' = "recording"
             /\ statusText' = "Recording..."]_vars

C11_Witness ==
  /\ statusText = "Audio error - try again"
  /\ audioCapture = "browser"
  /\ ~recording
  /\ ~btnDisabled
  /\ btnText = "Record"
  /\ stopPromise = NoPromise
  /\ \A i \in Ids : tasks[i].type = "load"

\* The interface history of the current session: the last start() in log,
\* the first stop() after it, and the audio frames delivered in between.
LastStart ==
  LET S == {i \in 1..Len(log) : log[i].kind = "start"}
  IN IF S = {} THEN 0 ELSE CHOOSE i \in S : \A j \in S : j <= i
SessionEnd ==
  LET E == {i \in 1..Len(log) : i > LastStart /\ log[i].kind = "stop"}
  IN IF E = {} THEN Len(log) + 1 ELSE CHOOSE i \in E : \A j \in E : i <= j
SessionFrames ==
  IF LastStart = 0
    THEN <<>>
    ELSE SelectSeq(SubSeq(log, LastStart + 1, SessionEnd - 1),
                   LAMBDA e : e.kind = "audio")
SessionChunks ==
  [i \in 1..Len(SessionFrames) |-> PcmS16LEtoFloat32(SessionFrames[i].audioPcm)]

C13_StopConsumesSession ==
  SessionEnd <= Len(log)
    => /\ chunks = <<>>
       /\ (Len(log) > SessionEnd /\ log[Len(log)].kind \in {"stop", "getAudio"})
            => returned = <<>>

\* C14: the step in which a model invocation throws emits exactly the
\* error response of that request and leaves the loaded model in place;
\* every transcribe request the worker takes after such a failure goes on
\* to invoke the model and is not answered at once.
C14_InferenceFailureKeepsModel ==
  /\ [][\A i \in Ids :
          (tasks[i].pc = "invoke" /\ tasks'[i].pc = "failed")
            => /\ emitted' = Append(emitted, Resp("error", i))
               /\ transcriber # 0
               /\ transcriber' = transcriber]_vars
  /\ [][\A i \in Ids :
          (/\ tasks[i].type = "transcribe"
           /\ tasks[i].pc = "sent"
           /\ tasks'[i].pc # "sent"
           /\ \E j \in Ids : /\ tasks[j].type = "transcribe"
                              /\ tasks[j].pc = "failed")
            => /\ tasks'[i].pc = "invoke"
               /\ emitted' = emitted]_vars

C14_Witness ==
  \E j, k \in Ids :
    /\ j < k
    /\ tasks[j].type = "transcribe"
    /\ tasks[j].pc = "failed"
    /\ Answers(j) = <<Resp("error", j)>>
    /\ tasks[k].type = "transcribe"
    /\ tasks[k].pc = "done"
    /\ Answers(k) = <<Resp("result", k)>>
    /\ emitted[Len(emitted)] = Resp("result", k)
    /\ emitted[Len(emitted) - 1] = Resp("error", j)

\* C15: the step in which a load fails emits exactly that load's error,
\* and after it the worker holds no model; a failed load is never
\* answered with ready.
C15_FailedLoadUnloads ==
  /\ [][\A i \in Ids :
          (/\ tasks[i].type = "load"
           /\ tasks[i].pc # "failed"
           /\ tasks'[i].pc = "failed")
            => /\ emitted' = Append(emitted, Resp("error", i))
               /\ transcriber' = 0]_vars
  /\ [](\A i \in Ids :
          (tasks[i].type = "load" /\ tasks[i].pc = "failed")
            => Answers(i) = <<Resp("error", i)>>)

\* A dispose() call is taken in this step.
Disposes == log' # log /\ log'[Len(log')].kind = "dispose"

\* C16: a dispose() of the live-stream backend, from whatever state it is
\* called, applies close() to no context that is already closed; after
\* it no context is running and no track is live; and a dispose() that
\* directly follows a dispose() changes no field and raises nothing.
C16_DisposeSafeIdempotent ==
  [][Disposes
       => /\ closeErrors' = closeErrors
          /\ audioCtx' # "running"
          /\ stream' # "live"
          /\ (log # <<>> /\ log[Len(log)].kind = "dispose")
               => UNCHANGED <<chunks, stream, audioCtx, nodes,
                              nativeSampleRate, returned>>]_vars

\* C18: the resampler's output has round(len * target / native) samples
\* (halves up); at equal rates it equals the input element for element;
\* and output sample i is the linear interpolation, at the fractional
\* part of i * native / target, between the source samples at
\* lo = floor(i * native / target) and min(lo + 1, len - 1), both inside
\* the input, so it lies between the two.
C18_ResampleContract ==
  log # <<>> =>
    LET raw == MergeChunks(chunks)
        len == Len(raw)
        N == nativeSampleRate
        out == returned
    IN /\ 2 * Len(out) * N <= 2 * len * TargetRate + N
       /\ 2 * len * TargetRate + N < 2 * (Len(out) + 1) * N
       /\ N = TargetRate
            => \A i \in 1..len : out[i].num = raw[i] * out[i].den
       /\ \A i \in 0..(Len(out) - 1) :
            LET lo == (i * N) \div TargetRate
                hi == Min(lo + 1, len - 1)
                r == (i * N) % TargetRate
                v == out[i + 1]
            IN /\ 0 <= lo /\ lo <= hi /\ hi <= len - 1
               /\ v.den > 0
               /\ v.num * TargetRate
                    = (raw[lo + 1] * TargetRate
                       + (raw[hi + 1] - raw[lo + 1]) * r) * v.den
               /\ Min(raw[lo + 1], raw[hi + 1]) * v.den <= v.num
               /\ v.num <= Max(raw[lo + 1], raw[hi + 1]) * v.den

\* Upsampling with a clamped tail: the samples 2, 0 at 8000 Hz give
\* 2, 1, 0, 0.
C18_Witness ==
  /\ log # <<>>
  /\ nativeSampleRate = 8000
  /\ chunks = << <<2, 0>> >>
  /\ Len(returned) = 4
  /\ returned[1].num = 2 * returned[1].den
  /\ returned[2].num = returned[2].den
  /\ returned[3].num = 0
  /\ returned[4].num = 0

\* C17: on an event-frame backend that has never been started, stop()
\* resolves with an empty buffer and leaves the backend not recording,
\* without a subscription (the null unsubscribe is not called) and with
\* no chunk, whatever events arrived before or after.
C17_StopBeforeStart ==
  (LastStart = 0 /\ \E i \in 1..Len(log) : log[i].kind = "stop")
    => /\ log[Len(log)].kind = "stop" => returned = <<>>
       /\ chunks = <<>>
       /\ ~capRecording
       /\ ~unsubscribe
       /\ subs = 0
       /\ ~micOn

C17_Witness ==
  /\ Len(log) = 2
  /\ log[1] = AudioEv(<<1, 0>>)
  /\ log[2] = Call("stop")
  /\ returned = <<>>
  /\ ~capRecording
  /\ ~unsubscribe

\* C19: every transcribe request was posted after the page handled a
\* ready response, so the worker holds a model whenever it takes one, and
\* no request is answered with "Model not loaded".
C19_NoTranscribeBeforeReady ==
  \A i \in Ids :
    tasks[i].type = "transcribe"
      => /\ modelReady
         /\ \E j \in resolved : j < i /\ tasks[j].type = "load"
                                 /\ tasks[j].pc = "done"
         /\ transcriber # 0
         /\ tasks[i].pc # "notLoaded"

C19_Witness ==
  /\ Len(tasks) = 2
  /\ tasks[2].type = "transcribe"
  /\ tasks[2].pc = "invoke"
  /\ audioCapture = "glasses"

\* A call of the backend's stop() is taken in this step.
CallsStop == stopPromise.st = "none" /\ stopPromise'.st # "none"

\* C20: the controller's calls of start() and stop() alternate, start()
\* first: every start() finds the event-frame backend stopped and
\* unsubscribed, every stop() finds it recording with one subscription;
\* the backend never holds two subscriptions, and an audio event adds at
\* most one chunk.
C20_StartStopAlternate ==
  /\ [](/\ subs <= 1
         /\ (capRecording <=> (subs = 1))
         /\ (unsubscribe <=> (subs = 1))
         /\ (audioCapture = "glasses" => (recording <=> capRecording))
         /\ audioCapture = "browser" => (recording => recorderState # "null"))
  /\ [][subs' > subs => (subs = 0 /\ ~capRecording /\ ~recording)]_vars
  /\ [][(CallsStop /\ audioCapture = "glasses")
          => (capRecording /\ subs = 1 /\ subs' = 0 /\ recording)]_vars
  /\ [][(~recording /\ recording') => recorderState # "recording"]_vars
  /\ [][Len(chunks') <= Len(chunks) + 1]_vars

C20_Witness ==
  /\ audioCapture = "glasses"
  /\ recording
  /\ subs = 1
  /\ Len(chunks) = 2
  /\ Len(tasks) = 2
  /\ tasks[2].type = "transcribe"

\* C21: whenever the controller's recording flag is true, the button is
\* labelled Stop and the status reads "Recording...".
C21_LabelAgreesWithFlag ==
  recording => (btnText = "Stop" /\ statusText = "Recording...")

\* C22: resampling a non-empty buffer between different rates, every
\* output index i below round(len * target / native) has its lower
\* source index floor(i * native / target) at most len - 1, and no output
\* sample is computed from a read outside the input.
C22_ResampleReadsInside ==
  (log # <<>> /\ nativeSampleRate # TargetRate /\ MergeChunks(chunks) # <<>>)
    => LET len == Len(MergeChunks(chunks))
           outLen == RoundDiv(len * TargetRate, nativeSampleRate)
       IN /\ Len(returned) = outLen
          /\ \A i \in 0..(outLen - 1) :
               /\ InRange((i * nativeSampleRate) \div TargetRate, len)
               /\ returned[i + 1] # NaN

\* The tightest case: three samples at 32000 Hz round up to two outputs,
\* and the second reads the last source sample as both neighbours.
C22_Witness ==
  /\ log # <<>>
  /\ nativeSampleRate = 32000
  /\ chunks = << <<0, 0, 2>> >>
  /\ Len(returned) = 2
  /\ returned[2] = Frac(2 * TargetRate, TargetRate)

====
